---- MODULE Spec2Model ----
(***************************************************************************)
(* Verification model of the disks-rs crates: the alignment helpers        *)
(* (disks/src/sizing.rs), the partition planner, the strategy allocator    *)
(* (partitioning/src/strategy.rs), the disk writer                         *)
(* (partitioning/src/writer.rs) and superblock identification              *)
(* (superblock/src/lib.rs).                                                *)
(*                                                                         *)
(* Offsets and sizes are counted in model units of 256 KiB, so that the    *)
(* 1 MiB partition alignment is 4 units and every offset is a whole number *)
(* of 512-byte sectors.  Partition attributes are passed through by the    *)
(* planner and the strategy without being inspected; they are left out.    *)
(***************************************************************************)
EXTENDS Integers, Sequences, FiniteSets, TLC

\* ------------------------------------------------------------------------
\* Bounds of the model

\* Size of the modelled disk, in units
DiskSize == 20
\* Largest number of requests held by one Strategy
MaxRequests == 2
\* Largest length of the planner's journal
MaxChanges == 3
\* Largest value of the planner's next_partition_id
MaxPartitionId == 4
\* Largest distance of an aligned value from 0 and from the largest u64
MaxValue == 24
\* Largest alignment handed to the sizing functions
MaxAlignment == 17

\* u64 arithmetic wraps modulo this value in builds without overflow checks
U64Mod == 2 ^ 12

\* ------------------------------------------------------------------------
\* disks/src/sizing.rs

is_aligned(value, alignment) == value % alignment = 0

align_up(value, alignment) ==
    LET remainder == value % alignment IN
    IF remainder = 0 THEN value
    ELSE IF remainder > (alignment \div 2) THEN value + (alignment - remainder)
    ELSE value - remainder

align_down(value, alignment) ==
    LET remainder == value % alignment IN
    IF remainder = 0 THEN value
    ELSE IF remainder < (alignment \div 2) THEN value - remainder
    ELSE value + (alignment - remainder)

\* ------------------------------------------------------------------------
\* Planner (partitioning/src/planner.rs)

\* Required partition alignment: 1 MiB
Alignment == 4

\* First and last usable byte offsets, as returned by Planner::offsets
first_usable == Alignment
last_usable == align_down(DiskSize - Alignment, Alignment)

Region(start, end, id) == [start |-> start, end |-> end, id |-> id]

size(r) == r.end - r.start

overlaps_with(a, b) == a.start < b.end /\ b.start < a.end

\* Insert a region into a layout kept sorted by start (after equal starts)
RECURSIVE InsertSorted(_, _)
InsertSorted(layout, r) ==
    IF layout = << >> THEN << r >>
    ELSE IF r.start < Head(layout).start THEN << r >> \o layout
    ELSE << Head(layout) >> \o InsertSorted(Tail(layout), r)

\* Stable sort of a layout by start
RECURSIVE SortByStart(_)
SortByStart(layout) ==
    IF layout = << >> THEN << >>
    ELSE InsertSorted(SortByStart(SubSeq(layout, 1, Len(layout) - 1)),
                      layout[Len(layout)])

RemoveAt(s, i) == SubSeq(s, 1, i - 1) \o SubSeq(s, i + 1, Len(s))

InsertAt(s, i, e) == SubSeq(s, 1, i - 1) \o << e >> \o SubSeq(s, i, Len(s))

RECURSIVE MaxId(_)
MaxId(layout) ==
    IF layout = << >> THEN 0
    ELSE LET m == MaxId(Tail(layout)) IN
         IF Head(layout).id > m THEN Head(layout).id ELSE m

\* Planner::new over a device snapshot: a sequence of <<start, end>> pairs,
\* numbered 1.. in the order the device lists them
NewPlanner(snapshot) ==
    LET regions == [i \in 1 .. Len(snapshot) |->
                        Region(snapshot[i][1], snapshot[i][2], i)]
        sorted == SortByStart(regions)
    IN [original_layout |-> sorted,
        current_layout |-> sorted,
        changes |-> << >>,
        wipe_disk |-> FALSE,
        next_partition_id |-> MaxId(regions) + 1]

p_has_changes(p) == p.changes # << >>

AddChange(start, end, id) ==
    [kind |-> "AddPartition", start |-> start, end |-> end,
     partition_id |-> id, original_index |-> 0]

DeleteChange(r, index) ==
    [kind |-> "DeletePartition", start |-> r.start, end |-> r.end,
     partition_id |-> r.id, original_index |-> index]

\* An addition that checks the bounds and the size, not the overlaps
p_plan_add_partitionNoOverlapCheck(p, start, end) ==
    LET aligned_start == align_up(start, Alignment)
        aligned_end == align_down(end, Alignment)
        new_region == Region(aligned_start, aligned_end, p.next_partition_id)
    IN IF aligned_start < first_usable \/ aligned_end > last_usable
       THEN [result |-> "RegionOutOfBounds", planner |-> p]
       ELSE IF ~(aligned_start < aligned_end)
       THEN [result |-> "InvalidSize", planner |-> p]
       ELSE [result |-> "Ok",
             planner |-> [p EXCEPT
                 !.current_layout = InsertSorted(@, new_region),
                 !.changes = Append(@, AddChange(aligned_start, aligned_end,
                                                 p.next_partition_id)),
                 !.next_partition_id = @ + 1]]

\* Planner::plan_add_partition_with_attributes: the pair of the result and
\* the planner after the call
p_plan_add_partition(p, start, end) ==
    LET aligned_start == align_up(start, Alignment)
        aligned_end == align_down(end, Alignment)
        new_region == Region(aligned_start, aligned_end, p.next_partition_id)
    IN IF aligned_start < first_usable \/ aligned_end > last_usable
       THEN [result |-> "RegionOutOfBounds", planner |-> p]
       ELSE IF \E i \in 1 .. Len(p.current_layout) :
                   overlaps_with(new_region, p.current_layout[i])
       THEN [result |-> "PartitionOverlap", planner |-> p]
       ELSE IF ~(aligned_start < aligned_end)
       THEN [result |-> "InvalidSize", planner |-> p]
       ELSE [result |-> "Ok",
             planner |-> [p EXCEPT
                 !.current_layout = InsertSorted(@, new_region),
                 !.changes = Append(@, AddChange(aligned_start, aligned_end,
                                                 p.next_partition_id)),
                 !.next_partition_id = @ + 1]]

IndexOfId(layout, id) ==
    IF \E i \in 1 .. Len(layout) : layout[i].id = id
    THEN CHOOSE i \in 1 .. Len(layout) :
             layout[i].id = id /\ \A j \in 1 .. i - 1 : layout[j].id # id
    ELSE 0

\* Position in the layout of the region an AddPartition change added, or 0
IndexOfRegion(layout, r) ==
    IF \E i \in 1 .. Len(layout) : layout[i] = r
    THEN CHOOSE i \in 1 .. Len(layout) :
             layout[i] = r /\ \A j \in 1 .. i - 1 : layout[j] # r
    ELSE 0

\* Planner::plan_delete_partition
p_plan_delete_partition(p, id) ==
    LET index == IndexOfId(p.current_layout, id) IN
    IF index = 0 THEN [result |-> "PartitionNotFound", planner |-> p]
    ELSE [result |-> "Ok",
          planner |-> [p EXCEPT
              !.current_layout = RemoveAt(@, index),
              !.changes = Append(@, DeleteChange(p.current_layout[index], index))]]

\* An undo that pops the change and reverses a deletion only
p_undoDeletionsOnly(p) ==
    IF p.changes = << >> THEN p
    ELSE LET change == p.changes[Len(p.changes)]
             rest == SubSeq(p.changes, 1, Len(p.changes) - 1)
         IN [p EXCEPT !.changes = rest,
                      !.current_layout =
                          IF change.kind = "AddPartition" THEN @
                          ELSE InsertAt(@, change.original_index,
                                   Region(change.start, change.end,
                                          change.partition_id)),
                      !.wipe_disk = IF rest = << >> THEN FALSE ELSE @]

\* An undo that gives the id of an undone addition back to the counter
p_undoReusingId(p) ==
    IF p.changes = << >> THEN p
    ELSE LET change == p.changes[Len(p.changes)]
             rest == SubSeq(p.changes, 1, Len(p.changes) - 1)
             layout ==
                 IF change.kind = "AddPartition"
                 THEN RemoveAt(p.current_layout,
                               IndexOfRegion(p.current_layout,
                                   Region(change.start, change.end,
                                          change.partition_id)))
                 ELSE InsertAt(p.current_layout, change.original_index,
                               Region(change.start, change.end, change.partition_id))
         IN [p EXCEPT !.changes = rest,
                      !.current_layout = layout,
                      !.next_partition_id =
                          IF change.kind = "AddPartition"
                          THEN change.partition_id ELSE @,
                      !.wipe_disk = IF rest = << >> THEN FALSE ELSE @]

\* An undo that reverses the last change and leaves it in the journal
p_undoKeepingJournal(p) ==
    IF p.changes = << >> THEN p
    ELSE LET change == p.changes[Len(p.changes)]
             layout ==
                 IF change.kind = "AddPartition"
                 THEN RemoveAt(p.current_layout,
                               IndexOfRegion(p.current_layout,
                                   Region(change.start, change.end,
                                          change.partition_id)))
                 ELSE p.current_layout
         IN [p EXCEPT !.current_layout = layout]

\* Planner::undo
p_undo(p) ==
    IF p.changes = << >> THEN p
    ELSE LET change == p.changes[Len(p.changes)]
             rest == SubSeq(p.changes, 1, Len(p.changes) - 1)
             layout ==
                 IF change.kind = "AddPartition"
                 THEN RemoveAt(p.current_layout,
                               IndexOfRegion(p.current_layout,
                                   Region(change.start, change.end,
                                          change.partition_id)))
                 ELSE InsertAt(p.current_layout, change.original_index,
                               Region(change.start, change.end, change.partition_id))
         IN [p EXCEPT !.changes = rest,
                      !.current_layout = layout,
                      !.wipe_disk = IF rest = << >> THEN FALSE ELSE @]

\* Journal every partition of the layout as deleted, first to last
RECURSIVE DeleteAll(_)
DeleteAll(p) ==
    IF p.current_layout = << >> THEN p
    ELSE DeleteAll(p_plan_delete_partition(p, p.current_layout[1].id).planner)

\* Planner::plan_initialize_disk
p_plan_initialize_disk(p) ==
    [DeleteAll(p) EXCEPT !.wipe_disk = TRUE, !.next_partition_id = 1]

\* ------------------------------------------------------------------------
\* Strategy allocator (partitioning/src/strategy.rs)

\* SizeRequirement
Exact(n) == [kind |-> "Exact", min |-> n, max |-> n]
AtLeast(n) == [kind |-> "AtLeast", min |-> n, max |-> 0]
Range(lo, hi) == [kind |-> "Range", min |-> lo, max |-> hi]
Remaining == [kind |-> "Remaining", min |-> 0, max |-> 0]

\* AllocationStrategy
InitializeWholeDisk == [mode |-> "InitializeWholeDisk", start |-> 0, end |-> 0]
LargestFree == [mode |-> "LargestFree", start |-> 0, end |-> 0]
FirstFit == [mode |-> "FirstFit", start |-> 0, end |-> 0]
SpecificRegion(start, end) == [mode |-> "SpecificRegion", start |-> start, end |-> end]

\* Strategy::new
StrategyNew(allocation) == [allocation |-> allocation, requests |-> << >>]

\* u64 addition and subtraction: the wrapped value, and whether it wrapped
wrapping_add(a, b) == (a + b) % U64Mod
wrapping_sub(a, b) == (a - b + U64Mod) % U64Mod
add_overflows(a, b) == a + b >= U64Mod
sub_overflows(a, b) == a < b

\* Strategy::find_free_regions: the loop over the sorted layout
RECURSIVE FreeRegionGaps(_, _, _)
FreeRegionGaps(layout, current, disk_size) ==
    IF layout = << >>
    THEN IF current < disk_size THEN << Region(current, disk_size, 0) >> ELSE << >>
    ELSE LET region == Head(layout) IN
         (IF region.start > current
          THEN << Region(current, region.start, 0) >> ELSE << >>)
         \o FreeRegionGaps(Tail(layout), region.end, disk_size)

find_free_regions(p) ==
    FreeRegionGaps(SortByStart(p.current_layout), first_usable, last_usable)

\* Iterator::max_by_key(|r| r.size()): the last of the maximal elements
MaxBySize(regions) ==
    LET i == CHOOSE i \in 1 .. Len(regions) :
                 /\ \A j \in 1 .. Len(regions) : size(regions[j]) <= size(regions[i])
                 /\ \A j \in i + 1 .. Len(regions) : size(regions[j]) < size(regions[i])
    IN regions[i]

\* The first element of a list of free regions
FirstRegion(regions) == regions[1]

\* Target selection that initializes the disk in every mode
SelectTargetInitializing(allocation, p) ==
    IF allocation.mode = "InitializeWholeDisk"
    THEN [result |-> "Ok", target |-> Region(first_usable, last_usable, 0),
          planner |-> p_plan_initialize_disk(p)]
    ELSE IF allocation.mode \in {"LargestFree", "FirstFit"}
    THEN LET free_regions == find_free_regions(p) IN
         IF free_regions = << >>
         THEN [result |-> "NoFreeRegions", target |-> Region(0, 0, 0), planner |-> p]
         ELSE [result |-> "Ok",
               target |-> IF allocation.mode = "LargestFree"
                          THEN MaxBySize(free_regions) ELSE FirstRegion(free_regions),
               planner |-> p_plan_initialize_disk(p)]
    ELSE [result |-> "Ok", target |-> Region(allocation.start, allocation.end, 0),
          planner |-> p]

\* Strategy::apply, target selection: the result, the target region and the
\* planner after the selection
SelectTarget(allocation, p) ==
    IF allocation.mode = "InitializeWholeDisk"
    THEN [result |-> "Ok", target |-> Region(first_usable, last_usable, 0),
          planner |-> p_plan_initialize_disk(p)]
    ELSE IF allocation.mode = "LargestFree"
    THEN LET free_regions == find_free_regions(p) IN
         IF free_regions = << >>
         THEN [result |-> "NoFreeRegions", target |-> Region(0, 0, 0), planner |-> p]
         ELSE [result |-> "Ok", target |-> MaxBySize(free_regions), planner |-> p]
    ELSE IF allocation.mode = "FirstFit"
    THEN LET free_regions == find_free_regions(p) IN
         IF free_regions = << >>
         THEN [result |-> "NoFreeRegions", target |-> Region(0, 0, 0), planner |-> p]
         ELSE [result |-> "Ok", target |-> FirstRegion(free_regions), planner |-> p]
    ELSE [result |-> "Ok", target |-> Region(allocation.start, allocation.end, 0),
          planner |-> p]

\* First pass of Strategy::apply: space requirements
RECURSIVE TotalFixed(_)
TotalFixed(requests) ==
    IF requests = << >> THEN 0
    ELSE (IF Head(requests).kind = "Exact" THEN Head(requests).min ELSE 0)
         + TotalFixed(Tail(requests))

RECURSIVE MinFlexible(_)
MinFlexible(requests) ==
    IF requests = << >> THEN 0
    ELSE (IF Head(requests).kind \in {"AtLeast", "Range"} THEN Head(requests).min ELSE 0)
         + MinFlexible(Tail(requests))

\* The flexible requests, last added first
RECURSIVE FlexibleRequestsReversed(_, _)
FlexibleRequestsReversed(requests, current_idx) ==
    IF current_idx > Len(requests) THEN << >>
    ELSE LET request == requests[current_idx] IN
         FlexibleRequestsReversed(requests, current_idx + 1)
         \o (IF request.kind = "Exact" THEN << >>
             ELSE << [idx |-> current_idx, min |-> request.min,
                      has_max |-> request.kind = "Range", max |-> request.max] >>)

\* flexible_requests: (index, min, max) of every request that is not Exact
RECURSIVE FlexibleRequests(_, _)
FlexibleRequests(requests, current_idx) ==
    IF current_idx > Len(requests) THEN << >>
    ELSE LET request == requests[current_idx] IN
         (IF request.kind = "Exact" THEN << >>
          ELSE << [idx |-> current_idx, min |-> request.min,
                   has_max |-> request.kind = "Range", max |-> request.max] >>)
         \o FlexibleRequests(requests, current_idx + 1)

\* The precheck with the flexible minimums left out
InsufficientSpaceFixedOnly(total_fixed, min_flexible, remaining) ==
    total_fixed > remaining

\* The precheck: not enough space for the minimum requirements
InsufficientSpace(total_fixed, min_flexible, remaining) ==
    total_fixed + min_flexible > remaining

Min(a, b) == IF a < b THEN a ELSE b
Max(a, b) == IF a > b THEN a ELSE b

\* The sizing with the max of a Range ignored
FlexibleSizeUnclamped(remaining, remaining_flexible, min, has_max, max) ==
    IF remaining_flexible = 0
    THEN Max(remaining, min)
    ELSE wrapping_add(min, remaining \div (remaining_flexible + 1))

\* The sizing with the last flexible request given half of what remains
FlexibleSizeLastHalf(remaining, remaining_flexible, min, has_max, max) ==
    LET share == remaining \div (remaining_flexible + 2)
        sz == wrapping_add(min, share)
    IN IF remaining_flexible = 0
       THEN IF has_max THEN Max(Min(share, max), min) ELSE Max(share, min)
       ELSE IF has_max THEN Min(sz, max) ELSE sz

\* The sizing with the fair share taken over one request more
FlexibleSizeShareOfOneMore(remaining, remaining_flexible, min, has_max, max) ==
    IF remaining_flexible = 0
    THEN IF has_max THEN Max(Min(remaining, max), min) ELSE Max(remaining, min)
    ELSE LET share == remaining \div (remaining_flexible + 2)
             sz == wrapping_add(min, share)
         IN IF has_max THEN Min(sz, max) ELSE sz

\* Size given to a flexible request; remaining_flexible counts the flexible
\* requests after this one
FlexibleSize(remaining, remaining_flexible, min, has_max, max) ==
    IF remaining_flexible = 0
    THEN IF has_max THEN Max(Min(remaining, max), min) ELSE Max(remaining, min)
    ELSE LET share == remaining \div (remaining_flexible + 1)
             sz == wrapping_add(min, share)
         IN IF has_max THEN Min(sz, max) ELSE sz

FlexibleSizeOverflows(remaining, remaining_flexible, min) ==
    /\ remaining_flexible # 0
    /\ add_overflows(min, remaining \div (remaining_flexible + 1))

\* while planner.has_changes() { planner.undo(); }
RECURSIVE Rollback(_)
Rollback(p) == IF p_has_changes(p) THEN Rollback(p_undo(p)) ELSE p

\* What one call of apply added: the request, the id and the planned interval
Added(idx, id, start, end) == [idx |-> idx, id |-> id, start |-> start, end |-> end]

\* State of apply between two requests
ApplyState(result, p, current, remaining, added) ==
    [result |-> result, planner |-> p, current |-> current,
     remaining |-> remaining, added |-> added]

\* Strategy::apply, the loop that places the Exact requests; the result
\* "Continue" means that the loop ran to its end
RECURSIVE ExactPass(_, _, _, _)
ExactPass(requests, i, st, checks) ==
    IF i > Len(requests) THEN st
    ELSE IF requests[i].kind # "Exact" THEN ExactPass(requests, i + 1, st, checks)
    ELSE LET sz == requests[i].min
             r == p_plan_add_partition(st.planner, st.current,
                                       wrapping_add(st.current, sz))
         IN IF checks /\ add_overflows(st.current, sz)
            THEN [st EXCEPT !.result = "Panic"]
            ELSE IF r.result # "Ok"
            THEN [st EXCEPT !.result = r.result]
            ELSE ExactPass(requests, i + 1,
                     ApplyState("Continue", r.planner,
                                wrapping_add(st.current, sz),
                                wrapping_sub(st.remaining, sz),
                                Append(st.added,
                                       Added(i, st.planner.next_partition_id,
                                             st.current, wrapping_add(st.current, sz)))),
                     checks)

\* Strategy::apply, the loop that places the flexible requests
RECURSIVE FlexiblePass(_, _, _, _)
FlexiblePass(flexible_requests, i, st, checks) ==
    IF i > Len(flexible_requests) THEN st
    ELSE LET f == flexible_requests[i]
             remaining_flexible == Len(flexible_requests) - i
         IN IF f.min > st.remaining
            THEN [st EXCEPT !.result = "RegionOutOfBounds",
                            !.planner = Rollback(st.planner)]
            ELSE LET sz == FlexibleSize(st.remaining, remaining_flexible,
                                        f.min, f.has_max, f.max)
                     end == wrapping_add(st.current, sz)
                     r == p_plan_add_partition(st.planner, st.current, end)
                 IN IF checks /\ (\/ FlexibleSizeOverflows(st.remaining,
                                                           remaining_flexible, f.min)
                                  \/ add_overflows(st.current, sz))
                    THEN [st EXCEPT !.result = "Panic"]
                    ELSE IF r.result # "Ok"
                    THEN [st EXCEPT !.result = r.result,
                                    !.planner = Rollback(st.planner)]
                    ELSE IF checks /\ sub_overflows(st.remaining, sz)
                    THEN [st EXCEPT !.result = "Panic", !.planner = r.planner]
                    ELSE FlexiblePass(flexible_requests, i + 1,
                             ApplyState("Continue", r.planner, end,
                                        wrapping_sub(st.remaining, sz),
                                        Append(st.added,
                                               Added(f.idx, st.planner.next_partition_id,
                                                     st.current, end))),
                             checks)

\* Strategy::apply on planner p; checks tells whether the build panics on
\* integer overflow (debug) or wraps (release)
StrategyApply(s, p, checks) ==
    LET sel == SelectTarget(s.allocation, p)
        target == sel.target
        remaining == target.end - target.start
        total_fixed == TotalFixed(s.requests)
        min_flexible == MinFlexible(s.requests)
        st0 == ApplyState("Continue", sel.planner, target.start, remaining, << >>)
    IN IF sel.result # "Ok" THEN [st0 EXCEPT !.result = sel.result] @@ [target |-> target]
       ELSE IF InsufficientSpace(total_fixed, min_flexible, remaining)
       THEN [st0 EXCEPT !.result = "RegionOutOfBounds"] @@ [target |-> target]
       ELSE LET st1 == ExactPass(s.requests, 1, st0, checks) IN
            IF st1.result # "Continue" THEN st1 @@ [target |-> target]
            ELSE LET st2 == FlexiblePass(FlexibleRequests(s.requests, 1), 1, st1, checks)
                 IN [st2 EXCEPT !.result = IF @ = "Continue" THEN "Ok" ELSE @]
                    @@ [target |-> target]

\* ------------------------------------------------------------------------
\* Writer (partitioning/src/writer.rs)

SECTOR_SIZE == 512

\* Length of the buffer of zeros that zero_region writes at a time
ZeroBlockSize == 65536

\* Bytes of one model unit: 256 KiB
UnitBytes == 4 * ZeroBlockSize

Bytes(units) == units * UnitBytes

\* 2 * 1024 * 1024: the bytes zeroed at the head of the disk and, at most,
\* at the head of a new partition
HeaderBytes == 2 * 1024 * 1024

\* Largest value of the u32 that holds the protective MBR's size, on a width
\* scaled down to 16 bits
U32Max == 2 ^ 16 - 1

\* The size of the protective MBR cut to the low bits of the u32
ProtectiveMbrSizeTruncated(total_lba) ==
    LET lb_size == IF total_lba >= 1 THEN total_lba - 1 ELSE 0 IN
    lb_size % (U32Max + 1)

\* u32::try_from(total_lba.saturating_sub(1)).unwrap_or(0xFF_FF_FF_FF)
ProtectiveMbrSize(total_lba) ==
    LET lb_size == IF total_lba >= 1 THEN total_lba - 1 ELSE 0 IN
    IF lb_size <= U32Max THEN lb_size ELSE U32Max

\* One operation performed on the device or asked of the kernel
Effect(op, offset, length) == [op |-> op, offset |-> offset, length |-> length]

\* An entry of a GPT that ends one sector early
GptEntryOneSectorShort(id, first_lba, length_lba) ==
    [id |-> id, first_lba |-> first_lba,
     length_lba |-> IF length_lba > 0 THEN length_lba - 1 ELSE 0]

\* An entry of a GPT
GptEntry(id, first_lba, length_lba) ==
    [id |-> id, first_lba |-> first_lba, length_lba |-> length_lba]

\* A block device: its size in units, the extent in sectors of the GPT it
\* holds (0 when it holds none) and the entries of that GPT, the size of the
\* protective MBR the writer wrote (0 when it wrote none), and the partition
\* ids the kernel publishes
Device(snapshot) ==
    [size |-> DiskSize,
     gpt_lba |-> IF snapshot = << >> THEN 0 ELSE Bytes(DiskSize) \div SECTOR_SIZE,
     table |-> { GptEntry(i, Bytes(snapshot[i][1]) \div SECTOR_SIZE,
                          (Bytes(snapshot[i][2]) - Bytes(snapshot[i][1])) \div SECTOR_SIZE)
                 : i \in 1 .. Len(snapshot) },
     mbr |-> 0,
     kernel |-> 1 .. Len(snapshot)]

\* gpt: GptDisk::remove_partition
remove_partition(table, id) == { e \in table : e.id # id }

\* gpt: GptDisk::add_partition_at accepts an entry whose id is not in use and
\* whose sectors are free sectors of the table
add_partition_fits(table, table_lba, id, first_lba, length_lba) ==
    /\ \A e \in table : e.id # id
    /\ first_lba + length_lba <= table_lba
    /\ \A e \in table :
           ~(first_lba < e.first_lba + e.length_lba
                /\ e.first_lba < first_lba + length_lba)

\* DiskWriter::validate_changes: the loop over the journal
RECURSIVE ValidateIds(_, _)
ValidateIds(journal, used_ids) ==
    IF journal = << >> THEN "Ok"
    ELSE LET change == Head(journal) IN
         IF change.kind = "AddPartition"
         THEN IF change.partition_id \in used_ids THEN "DuplicatePartitionId"
              ELSE ValidateIds(Tail(journal), used_ids \cup {change.partition_id})
         ELSE ValidateIds(Tail(journal), used_ids \ {change.partition_id})

validate_changes(p) == ValidateIds(p.changes, {})

\* zero_region: whole buffers of zeros, then the remaining bytes; the effect
\* holds the offset sought and the bytes written from there
zero_region(offset, length) ==
    LET chunks == length \div ZeroBlockSize
        remainder == length % ZeroBlockSize
    IN Effect("zero_region", offset, chunks * ZeroBlockSize + remainder)

\* A zeroing of 2 MiB whatever the size of the partition
zero_partition_prefixWholeHeader(offset, length) ==
    zero_region(offset, HeaderBytes)

\* zero_partition_prefix
zero_partition_prefix(offset, length) ==
    LET to_zero == IF length < HeaderBytes THEN length ELSE HeaderBytes IN
    zero_region(offset, to_zero)

\* The locals of DiskWriter::apply_changes
WriterState(result, dev, table, table_lba, effects, zero_regions) ==
    [result |-> result, device |-> dev, table |-> table, table_lba |-> table_lba,
     effects |-> effects, zero_regions |-> zero_regions]

\* DiskWriter::apply_changes up to the GPT it works on: created when the
\* planner's wipe_disk latch is set, read from the device otherwise
OpenTable(dev, p, writable) ==
    LET e0 == IF writable THEN << Effect("remove_kernel_partitions", 0, 0) >> ELSE << >>
        d0 == IF writable THEN [dev EXCEPT !.kernel = {}] ELSE dev
        total_lba == Bytes(d0.size) \div SECTOR_SIZE
    IN IF p.wipe_disk
       THEN IF writable
            THEN WriterState("Continue",
                     [d0 EXCEPT !.mbr = ProtectiveMbrSize(total_lba),
                                !.gpt_lba = total_lba, !.table = {}],
                     {}, total_lba,
                     e0 \o << Effect("zero_region", 0, HeaderBytes),
                              Effect("overwrite_lba0", 0, ProtectiveMbrSize(total_lba)),
                              Effect("write_inplace", 0, 0) >>,
                     << >>)
            ELSE WriterState("Continue", d0, {}, total_lba, e0, << >>)
       ELSE IF d0.gpt_lba = 0
            THEN WriterState("Gpt", d0, {}, 0, e0, << >>)
            ELSE WriterState("Continue", d0, d0.table, d0.gpt_lba, e0, << >>)

\* DiskWriter::apply_changes: the loop over the journal
RECURSIVE ApplyJournal(_, _, _)
ApplyJournal(journal, st, writable) ==
    IF journal = << >> \/ st.result # "Continue" THEN st
    ELSE LET change == Head(journal) IN
         IF change.kind = "DeletePartition"
         THEN ApplyJournal(Tail(journal),
                  [st EXCEPT !.table = remove_partition(@, change.partition_id)],
                  writable)
         ELSE LET start_lba == Bytes(change.start) \div SECTOR_SIZE
                  size_bytes == Bytes(change.end) - Bytes(change.start)
                  size_lba == size_bytes \div SECTOR_SIZE
              IN IF ~add_partition_fits(st.table, st.table_lba, change.partition_id,
                                        start_lba, size_lba)
                 THEN [st EXCEPT !.result = "Gpt"]
                 ELSE ApplyJournal(Tail(journal),
                          [st EXCEPT
                              !.table = @ \cup {GptEntry(change.partition_id,
                                                         start_lba, size_lba)},
                              !.zero_regions =
                                  IF writable
                                  THEN Append(@, << Bytes(change.start), Bytes(change.end) >>)
                                  ELSE @],
                          writable)

\* A commit that tells the kernel of the partitions before the heads of the
\* new partitions are zeroed
CommitTableRescanFirst(st, writable) ==
    IF st.result # "Continue" THEN st
    ELSE IF ~writable THEN [st EXCEPT !.result = "Ok"]
    ELSE [st EXCEPT
             !.result = "Ok",
             !.device = [@ EXCEPT !.table = st.table, !.gpt_lba = st.table_lba,
                                  !.kernel = { e.id : e \in st.table }],
             !.effects = @ \o << Effect("gpt_write", 0, 0), Effect("sync_all", 0, 0),
                                 Effect("create_kernel_partitions", 0, 0) >>
                           \o [i \in 1 .. Len(st.zero_regions) |->
                                  zero_partition_prefix(st.zero_regions[i][1],
                                      st.zero_regions[i][2] - st.zero_regions[i][1])]]

\* DiskWriter::apply_changes: the GPT is written and synced, the head of each
\* new partition is zeroed and the kernel is told of the partitions
CommitTable(st, writable) ==
    IF st.result # "Continue" THEN st
    ELSE IF ~writable THEN [st EXCEPT !.result = "Ok"]
    ELSE [st EXCEPT
             !.result = "Ok",
             !.device = [@ EXCEPT !.table = st.table, !.gpt_lba = st.table_lba,
                                  !.kernel = { e.id : e \in st.table }],
             !.effects = @ \o << Effect("gpt_write", 0, 0), Effect("sync_all", 0, 0) >>
                           \o [i \in 1 .. Len(st.zero_regions) |->
                                  zero_partition_prefix(st.zero_regions[i][1],
                                      st.zero_regions[i][2] - st.zero_regions[i][1])]
                           \o << Effect("create_kernel_partitions", 0, 0) >>]

\* DiskWriter::apply_changes
apply_changes(dev, p, writable) ==
    CommitTable(ApplyJournal(p.changes, OpenTable(dev, p, writable), writable),
                writable)

\* A simulation that applies the changes as write does
simulateWritable(dev, p) ==
    IF validate_changes(p) # "Ok"
    THEN WriterState(validate_changes(p), dev, {}, 0, << >>, << >>)
    ELSE apply_changes(dev, p, TRUE)

\* DiskWriter::simulate
simulate(dev, p) ==
    IF validate_changes(p) # "Ok"
    THEN WriterState(validate_changes(p), dev, {}, 0, << >>, << >>)
    ELSE apply_changes(dev, p, FALSE)

\* A write that validates the changes after it applied them
writeValidatingLast(dev, p) ==
    LET st == apply_changes(dev, p, TRUE) IN
    IF validate_changes(p) # "Ok" THEN [st EXCEPT !.result = validate_changes(p)]
    ELSE IF st.result # "Ok" THEN st
    ELSE [st EXCEPT !.effects = Append(@, Effect("flush", 0, 0))]

\* DiskWriter::write
write(dev, p) ==
    IF validate_changes(p) # "Ok"
    THEN WriterState(validate_changes(p), dev, {}, 0, << >>, << >>)
    ELSE LET st == apply_changes(dev, p, TRUE) IN
         IF st.result # "Ok" THEN st
         ELSE [st EXCEPT !.effects = Append(@, Effect("flush", 0, 0))]

\* ------------------------------------------------------------------------
\* Superblock identification (crates/superblock)

\* impl Detection for each format: where its magic lies (MAGIC_OFFSET) and
\* how many bytes it has (size_of Magic), where its structure begins (OFFSET)
\* and how many bytes the structure has (SIZE). Offsets are in bytes.

\* ext4: magic 0xEF53 (u16) at 1024 + 0x38, structure at 1024, of 1024 bytes
Ext4Detection ==
    [kind |-> "Ext4", MAGIC_OFFSET |-> 1024 + 56, MAGIC_SIZE |-> 2,
     OFFSET |-> 1024, SIZE |-> 1024, magics |-> {"EF53"}]

\* btrfs: magic "_BHRfS_M" (u64), the field at byte 64 of a structure of
\* 32 + 16 + 7 * 8 bytes that begins at 0x10000
BtrfsDetection ==
    [kind |-> "Btrfs", MAGIC_OFFSET |-> 65536 + 64, MAGIC_SIZE |-> 8,
     OFFSET |-> 65536, SIZE |-> 32 + 16 + 7 * 8, magics |-> {"_BHRfS_M"}]

\* f2fs: magic 0xF2F52010 (u32) at START_POSITION, where the structure of
\* 3072 bytes begins
F2FSDetection ==
    [kind |-> "F2FS", MAGIC_OFFSET |-> 1024, MAGIC_SIZE |-> 4,
     OFFSET |-> 1024, SIZE |-> 3072, magics |-> {"F2F52010"}]

\* xfs: magic "XFSB" at byte 0, where the structure begins; it lies within
\* the first sector
XfsDetection ==
    [kind |-> "Xfs", MAGIC_OFFSET |-> 0, MAGIC_SIZE |-> 4,
     OFFSET |-> 0, SIZE |-> 512, magics |-> {"XFSB"}]

\* luks2: magic of MAGIC_LEN bytes at byte 0, either sibling, structure of
\* 4096 bytes
Luks2Detection ==
    [kind |-> "Luks2", MAGIC_OFFSET |-> 0, MAGIC_SIZE |-> 6,
     OFFSET |-> 0, SIZE |-> 4096, magics |-> {"LUKSbabe", "SKULbabe"}]

\* fat: magic 55 AA at 0x1FE, structure of 36 + 54 bytes at START_POSITION 0
FatDetection ==
    [kind |-> "Fat", MAGIC_OFFSET |-> 510, MAGIC_SIZE |-> 2,
     OFFSET |-> 0, SIZE |-> 36 + 54, magics |-> {"55AA"}]

\* The try_detect! sequence of Superblock::from_bytes, reversed in part
DetectionOrderFatFirst ==
    << FatDetection, Ext4Detection, BtrfsDetection, F2FSDetection,
       XfsDetection, Luks2Detection >>

\* The try_detect! sequence of Superblock::from_bytes
DetectionOrder ==
    << Ext4Detection, BtrfsDetection, F2FSDetection, XfsDetection,
       Luks2Detection, FatDetection >>

\* A buffer is its length and the bytes it holds where some format looks for
\* its magic; the bytes are named by the magic they spell, "zero" for any
\* other value and "absent" where the buffer ends before them.
\* field: first byte |-> number of bytes
MagicFields == (0 :> 6) @@ (510 :> 2) @@ (1024 :> 4) @@ (1080 :> 2)
               @@ (65600 :> 8)

\* The bytes at offset 0 are read as 4 bytes by xfs and as 6 by luks2
ReadMagic(at, T) ==
    LET found == at[T.MAGIC_OFFSET] IN
    IF T.MAGIC_SIZE = MagicFields[T.MAGIC_OFFSET] THEN found
    ELSE IF found = "XFSB" THEN "XFSB" ELSE "zero"

\* Cursor::read_exact after a seek: UnexpectedEof unless the bytes are there
read_exact(buf, offset, length) == offset + length <= buf.len

\* FromBytes::read_from_bytes of a block: the length must be the type's
read_from_bytes(T, length) == length = T.SIZE

\* Detection::is_valid_magic
is_valid_magic(T, magic) == magic \in T.magics

\* detect_superblock: "Err" an io::Error, "Some" a block, "None" not this
\* format
detect_superblock(T, buf) ==
    IF ~read_exact(buf, T.MAGIC_OFFSET, T.MAGIC_SIZE) THEN "Err"
    ELSE IF is_valid_magic(T, ReadMagic(buf.at, T)) THEN
        IF ~read_exact(buf, T.OFFSET, T.SIZE) THEN "Err"
        ELSE IF read_from_bytes(T, T.SIZE) THEN "Some"
        ELSE "None"
    ELSE "None"

\* What read_config did: the hdr_size of the header, whether the length of
\* the JSON area wrapped below 0, the offset sought and the bytes read
Config(hdr_size, wrapped, offset, read) ==
    [hdr_size |-> hdr_size, wrapped |-> wrapped, offset |-> offset, read |-> read]

Detected(op, result, kind) ==
    [op |-> op, result |-> result, kind |-> kind, config |-> Config(0, FALSE, 0, 0)]

\* try_detect! for the formats from the i-th on, then UnknownSuperblock
RECURSIVE try_detect(_, _)
try_detect(buf, i) ==
    IF i > Len(DetectionOrder) THEN
        Detected("from_bytes", "UnknownSuperblock", "None")
    ELSE
        LET T == DetectionOrder[i]
            found == detect_superblock(T, buf)
        IN  IF found = "Err" THEN Detected("from_bytes", "Io", "None")
            ELSE IF found = "Some" THEN Detected("from_bytes", "Ok", T.kind)
            ELSE try_detect(buf, i + 1)

\* Superblock::from_bytes
from_bytes(buf) == try_detect(buf, 1)

\* The bytes from_reader preallocates and reads
ReaderPrefix == 128 * 1024

\* The first bytes of a buffer
Take(buf, length) ==
    [len |-> length,
     at |-> [o \in DOMAIN MagicFields |->
                IF o + MagicFields[o] <= length THEN buf.at[o] ELSE "absent"]]

\* Superblock::from_reader, on a reader over buf
from_reader(buf) ==
    IF ~read_exact(buf, 0, ReaderPrefix) THEN
        Detected("from_reader", "Io", "None")
    ELSE [from_bytes(Take(buf, ReaderPrefix)) EXCEPT !.op = "from_reader"]

\* Luks2::read_config on a reader over buf, for a header whose hdr_size field
\* holds hdr_size. `hdr_size - 4096` is a u64 subtraction: below 0 it panics
\* in a build with overflow checks, and otherwise wraps to a length within
\* 4096 of the largest u64, which vec! cannot allocate (capacity overflow).
\* decodes tells whether the bytes read are UTF-8 and JSON of a Luks2Config.
read_config(hdr_size, buf, checks, decodes) ==
    IF hdr_size < 4096 THEN
        [Detected("read_config", "Panic", "Luks2") EXCEPT
            !.config = Config(hdr_size, ~checks, 0, 0)]
    ELSE IF ~read_exact(buf, Luks2Detection.SIZE, hdr_size - 4096) THEN
        [Detected("read_config", "Io", "Luks2") EXCEPT
            !.config = Config(hdr_size, FALSE, Luks2Detection.SIZE, 0)]
    ELSE
        [Detected("read_config", IF decodes THEN "Ok" ELSE "InvalidJson", "Luks2")
            EXCEPT !.config = Config(hdr_size, FALSE, Luks2Detection.SIZE,
                                     hdr_size - 4096)]

\* ------------------------------------------------------------------------
\* State

VARIABLES
    original_layout,     \* Planner: partitions of the device at construction
    current_layout,      \* Planner: working set, sorted by start
    changes,             \* Planner: journal of applied changes
    wipe_disk,           \* Planner: latch, the table is to be recreated
    next_partition_id,   \* Planner: next id to assign
    strategy,            \* the Strategy under construction or last applied
    device,              \* the block device the planner was made for
    last,                \* the most recent call: which one, its result and,
                         \* for an apply, its target and what it added, for
                         \* plan_add_partition, the interval asked for and the
                         \* id returned, for the writer, what it did
    bytes,               \* the buffer handed to superblock identification
    detected,            \* what identification returned for it
    sizing               \* a call of a sizing function: its value (for the
                         \* protective MBR, the size of the device in bytes),
                         \* its alignment (the sector size), the function
                         \* applied and what it returned

vars == << original_layout, current_layout, changes, wipe_disk,
           next_partition_id, strategy, device, last, bytes, detected,
           sizing >>

\* The inputs and results of the pure functions
pure_vars == << bytes, detected, sizing >>

planner_vars == << original_layout, current_layout, changes, wipe_disk,
                   next_partition_id >>

\* The planner as one record
Planner ==
    [original_layout |-> original_layout, current_layout |-> current_layout,
     changes |-> changes, wipe_disk |-> wipe_disk,
     next_partition_id |-> next_partition_id]

SetPlanner(p) ==
    /\ original_layout' = p.original_layout
    /\ current_layout' = p.current_layout
    /\ changes' = p.changes
    /\ wipe_disk' = p.wipe_disk
    /\ next_partition_id' = p.next_partition_id

\* Planner::has_changes
has_changes == changes # << >>

\* The bounds of the model on a planner
WithinBounds(p) ==
    Len(p.changes) <= MaxChanges /\ p.next_partition_id <= MaxPartitionId

\* The planner was written to the device: a successful write consumes it
Consumed == last.op = "write" /\ last.result = "Ok"

\* Inputs the actions draw from

\* Device snapshots (MockDisk::add_partition calls, in order)
Snapshots ==
    { << >>,
      << <<5, 8>> >>,
      << <<0, 2>> >>,
      << <<0, 7>> >>,
      << <<4, last_usable>> >> }

ExactSizes == {2, 4}
AtLeastSizes == {8}
RangeSizes == { <<4, 8>> }

Requests ==
    { Exact(n) : n \in ExactSizes } \cup { AtLeast(n) : n \in AtLeastSizes }
    \cup { Range(r[1], r[2]) : r \in RangeSizes } \cup { Remaining }

Allocations ==
    { InitializeWholeDisk, LargestFree, FirstFit,
      SpecificRegion(4, 12) }

AddIntervals ==
    { <<4, 8>>, <<12, 16>>, <<9, 13>>, <<0, 4>>, <<9, 9>>, <<4, 16>> }

\* Sizes the device may have when the writer runs
DeviceSizes == { DiskSize, DiskSize - Alignment }

\* Buffer lengths: empty, a boot sector, through the ext4 structure, through
\* the luks2 structure, through the btrfs magic, through the btrfs
\* structure, what from_reader reads, and more than that
BufferLengths ==
    { 0, 512, 2048, 4096, 65536 + 64 + 8, 65536 + 32 + 16 + 7 * 8,
      ReaderPrefix, ReaderPrefix + 4096 }

\* Buffers handed to identification
Buffers ==
    { Take([len |-> n,
            at |-> (0 :> head) @@ (510 :> boot) @@ (1024 :> f2fs)
                   @@ (1080 :> ext4) @@ (65600 :> btrfs)], n) :
        n \in BufferLengths,
        head \in {"XFSB", "LUKSbabe", "SKULbabe", "zero"},
        boot \in {"55AA", "zero"},
        f2fs \in {"F2F52010", "zero"},
        ext4 \in {"EF53", "zero"},
        btrfs \in {"_BHRfS_M", "zero"} }

\* Values and alignments handed to the sizing functions: small values and
\* the values next to the largest u64; every alignment from 1, even and odd
SizingValues == (0 .. MaxValue) \cup ((U64Mod - 1 - MaxValue) .. (U64Mod - 1))
SizingAlignments == 1 .. MaxAlignment

\* Device sizes in bytes for the protective MBR: the first sectors and the
\* sectors around the largest count a u32 holds, whole and with bytes over
DeviceByteSizes ==
    { k * SECTOR_SIZE + over :
        k \in (0 .. MaxValue) \cup ((U32Max - 4) .. (U32Max + 4)),
        over \in {0, 1, SECTOR_SIZE - 1} }

\* Values of the hdr_size field of a LUKS2 header: none, less than the
\* binary header, the binary header alone, with JSON areas of 4 and 12 KiB,
\* and more than any buffer holds
HeaderSizes == { 0, 4095, 4096, 8192, 16384, 1024 * 1024 }

\* No buffer was handed in, nothing was identified, nothing was aligned
NoBuffer == Take([len |-> 0, at |-> [o \in DOMAIN MagicFields |-> "absent"]], 0)
NotDetected == Detected("none", "None", "None")
NoSizing ==
    [op |-> "none", v |-> 0, a |-> 1, result |-> [panic |-> FALSE, value |-> 0]]

Call(op, result) ==
    [op |-> op, result |-> result, target |-> Region(0, 0, 0), added |-> << >>,
     effects |-> << >>]

Init ==
    /\ \E snapshot \in Snapshots : 
         LET p == NewPlanner(snapshot) IN
         /\ original_layout = p.original_layout
         /\ current_layout = p.current_layout
         /\ changes = p.changes
         /\ wipe_disk = p.wipe_disk
         /\ next_partition_id = p.next_partition_id
         /\ device = Device(snapshot)
    /\ strategy = StrategyNew(InitializeWholeDisk)
    /\ last = Call("Planner::new", "None")
    /\ bytes = NoBuffer
    /\ detected = NotDetected
    /\ sizing = NoSizing

\* ------------------------------------------------------------------------
\* Operations

\* Strategy::new
NewStrategy ==
    \E allocation \in Allocations :
        /\ strategy' = StrategyNew(allocation)
        /\ last' = Call("Strategy::new", "None")
        /\ UNCHANGED << planner_vars, device, pure_vars >>

\* Strategy::add_request
AddRequest ==
    \E request \in Requests :
        /\ Len(strategy.requests) < MaxRequests
        /\ strategy' = [strategy EXCEPT !.requests = Append(@, request)]
        /\ last' = Call("add_request", "None")
        /\ UNCHANGED << planner_vars, device, pure_vars >>

\* Strategy::apply
Apply ==
    \E checks \in BOOLEAN :
        LET r == StrategyApply(strategy, Planner, checks) IN
        /\ WithinBounds(r.planner)
        /\ SetPlanner(r.planner)
        /\ last' = [op |-> "apply", result |-> r.result, target |-> r.target,
                    added |-> r.added, effects |-> << >>]
        /\ UNCHANGED << strategy, device, pure_vars >>

\* Planner::plan_add_partition
PlanAddPartition ==
    \E iv \in AddIntervals :
        LET r == p_plan_add_partition(Planner, iv[1], iv[2]) IN
        /\ ~Consumed
        /\ WithinBounds(r.planner)
        /\ SetPlanner(r.planner)
        /\ last' = [Call("plan_add_partition", r.result) EXCEPT
                        !.target = Region(iv[1], iv[2],
                                          IF r.result = "Ok"
                                          THEN next_partition_id ELSE 0)]
        /\ UNCHANGED << strategy, device, pure_vars >>

\* Planner::plan_delete_partition
PlanDeletePartition ==
    \E i \in 1 .. Len(current_layout) :
        LET r == p_plan_delete_partition(Planner, current_layout[i].id) IN
        /\ ~Consumed
        /\ WithinBounds(r.planner)
        /\ SetPlanner(r.planner)
        /\ last' = Call("plan_delete_partition", r.result)
        /\ UNCHANGED << strategy, device, pure_vars >>

\* Planner::undo
Undo ==
    /\ ~Consumed
    /\ SetPlanner(p_undo(Planner))
    /\ last' = Call("undo", "None")
    /\ UNCHANGED << strategy, device, pure_vars >>

\* Planner::plan_initialize_disk
PlanInitializeDisk ==
    LET p == p_plan_initialize_disk(Planner) IN
    /\ ~Consumed
    /\ WithinBounds(p)
    /\ SetPlanner(p)
    /\ last' = Call("plan_initialize_disk", "Ok")
    /\ UNCHANGED << strategy, device, pure_vars >>

\* DiskWriter::simulate
Simulate ==
    LET st == simulate(device, Planner) IN
    /\ ~Consumed
    /\ device' = st.device
    /\ last' = [Call("simulate", st.result) EXCEPT !.effects = st.effects]
    /\ UNCHANGED << planner_vars, strategy, pure_vars >>

\* DiskWriter::write
Write ==
    LET st == write(device, Planner) IN
    /\ ~Consumed
    /\ device' = st.device
    /\ last' = [Call("write", st.result) EXCEPT !.effects = st.effects]
    /\ UNCHANGED << planner_vars, strategy, pure_vars >>

\* The device is replaced or resized after the planner was made
Resize ==
    \E observed \in DeviceSizes :
        /\ ~Consumed
        /\ device' = [device EXCEPT !.size = observed]
        /\ last' = Call("resize", "None")
        /\ UNCHANGED << planner_vars, strategy, pure_vars >>

Next ==
    \/ NewStrategy
    \/ AddRequest
    \/ Apply

Spec == Init /\ [][Next]_vars

\* The planner driven directly by its own operations
NextPlanner ==
    \/ PlanAddPartition
    \/ PlanDeletePartition
    \/ Undo
    \/ PlanInitializeDisk

SpecPlanner == Init /\ [][NextPlanner]_vars

\* The planner driven by its own operations, and the writer run on it
NextWriter ==
    \/ PlanAddPartition
    \/ PlanDeletePartition
    \/ Undo
    \/ PlanInitializeDisk
    \/ Simulate
    \/ Write
    \/ Resize

SpecWriter == Init /\ [][NextWriter]_vars

\* Superblock::from_bytes
FromBytes ==
    /\ detected' = from_bytes(bytes)
    /\ UNCHANGED << planner_vars, strategy, device, last, bytes, sizing >>

\* Superblock::from_reader
FromReader ==
    /\ detected' = from_reader(bytes)
    /\ UNCHANGED << planner_vars, strategy, device, last, bytes, sizing >>

\* Luks2::read_config on the block that identification returned
ReadConfig ==
    \E hdr_size \in HeaderSizes, checks \in BOOLEAN, decodes \in BOOLEAN :
        /\ detected.op \in {"from_bytes", "from_reader"}
        /\ detected.result = "Ok"
        /\ detected.kind = "Luks2"
        /\ detected' = read_config(hdr_size, bytes, checks, decodes)
        /\ UNCHANGED << planner_vars, strategy, device, last, bytes, sizing >>

\* Identification of one buffer, any of Buffers
InitSuperblock ==
    /\ LET p == NewPlanner(<< >>) IN
         /\ original_layout = p.original_layout
         /\ current_layout = p.current_layout
         /\ changes = p.changes
         /\ wipe_disk = p.wipe_disk
         /\ next_partition_id = p.next_partition_id
    /\ device = Device(<< >>)
    /\ strategy = StrategyNew(InitializeWholeDisk)
    /\ last = Call("Planner::new", "None")
    /\ bytes \in Buffers
    /\ detected = NotDetected
    /\ sizing = NoSizing

NextSuperblock ==
    \/ FromBytes
    \/ FromReader
    \/ ReadConfig

SpecSuperblock == InitSuperblock /\ [][NextSuperblock]_vars

\* The u64 an expression of the sizing functions evaluates to: an addition
\* past the largest u64 panics in a build with overflow checks and wraps in
\* a build without
Evaluated(n, checks) ==
    IF n < U64Mod THEN [panic |-> FALSE, value |-> n]
    ELSE IF checks THEN [panic |-> TRUE, value |-> 0]
    ELSE [panic |-> FALSE, value |-> n % U64Mod]

\* align_up
AlignUp ==
    \E checks \in BOOLEAN :
        /\ sizing' = [sizing EXCEPT
                        !.op = "align_up",
                        !.result = Evaluated(align_up(sizing.v, sizing.a), checks)]
        /\ UNCHANGED << planner_vars, strategy, device, last, bytes, detected >>

\* align_down
AlignDown ==
    \E checks \in BOOLEAN :
        /\ sizing' = [sizing EXCEPT
                        !.op = "align_down",
                        !.result = Evaluated(align_down(sizing.v, sizing.a), checks)]
        /\ UNCHANGED << planner_vars, strategy, device, last, bytes, detected >>

\* is_aligned
IsAligned ==
    /\ sizing' = [sizing EXCEPT !.op = "is_aligned",
                                !.result = [panic |-> FALSE,
                                            value |-> is_aligned(sizing.v, sizing.a)]]
    /\ UNCHANGED << planner_vars, strategy, device, last, bytes, detected >>

\* The sizing functions on one value and one alignment, any of the inputs
InitSizing ==
    /\ LET p == NewPlanner(<< >>) IN
         /\ original_layout = p.original_layout
         /\ current_layout = p.current_layout
         /\ changes = p.changes
         /\ wipe_disk = p.wipe_disk
         /\ next_partition_id = p.next_partition_id
    /\ device = Device(<< >>)
    /\ strategy = StrategyNew(InitializeWholeDisk)
    /\ last = Call("Planner::new", "None")
    /\ bytes = NoBuffer
    /\ detected = NotDetected
    /\ \E v \in SizingValues, a \in SizingAlignments :
         sizing = [NoSizing EXCEPT !.v = v, !.a = a]

NextSizing ==
    \/ AlignUp
    \/ AlignDown
    \/ IsAligned

SpecSizing == InitSizing /\ [][NextSizing]_vars

\* The protective MBR of apply_changes: ProtectiveMBR::with_lb_size of the
\* device's sectors
WithLbSize ==
    /\ sizing' = [sizing EXCEPT
                    !.op = "with_lb_size",
                    !.result = [panic |-> FALSE,
                                value |-> ProtectiveMbrSize(sizing.v \div SECTOR_SIZE)]]
    /\ UNCHANGED << planner_vars, strategy, device, last, bytes, detected >>

\* The protective MBR for one device size, any of DeviceByteSizes
InitMbr ==
    /\ LET p == NewPlanner(<< >>) IN
         /\ original_layout = p.original_layout
         /\ current_layout = p.current_layout
         /\ changes = p.changes
         /\ wipe_disk = p.wipe_disk
         /\ next_partition_id = p.next_partition_id
    /\ device = Device(<< >>)
    /\ strategy = StrategyNew(InitializeWholeDisk)
    /\ last = Call("Planner::new", "None")
    /\ bytes = NoBuffer
    /\ detected = NotDetected
    /\ \E s \in DeviceByteSizes :
         sizing = [NoSizing EXCEPT !.v = s, !.a = SECTOR_SIZE]

NextMbr == WithLbSize

SpecMbr == InitMbr /\ [][NextMbr]_vars

\* ------------------------------------------------------------------------
\* Properties of Strategy::apply

\* apply returned an error to its caller (a panic returns nothing)
IsError(result) == result \notin {"Ok", "Panic", "None"}

ApplyReturned == last.op = "apply" /\ last.result # "Panic"
ApplyFailed == last.op = "apply" /\ IsError(last.result)
ApplySucceeded == last.op = "apply" /\ last.result = "Ok"

\* The step is a call of apply that returned an error
ApplyFailedStep == last'.op = "apply" /\ IsError(last'.result)

\* The partition that one entry of last.added planned, after snapping
SnappedRegion(a) ==
    Region(align_up(a.start, Alignment), align_down(a.end, Alignment), a.id)

\* The partition of an entry of last.added is planned: in the layout and
\* in the journal
IsPlanned(a) ==
    /\ \E i \in 1 .. Len(current_layout) : current_layout[i] = SnappedRegion(a)
    /\ \E i \in 1 .. Len(changes) :
           /\ changes[i].kind = "AddPartition"
           /\ changes[i].partition_id = a.id

\* C1: whenever apply returns an error, has_changes() has the value it had
\* before the call.
C1_ErrorKeepsHasChanges ==
    [][ApplyFailedStep => ((changes' # << >>) <=> (changes # << >>))]_vars

\* C2: when an apply that succeeded and planned partitions is followed by an
\* apply that returns an error, the journal and the layout after the failure
\* are those the planner held when the failing apply began.
C2_FailureKeepsEarlierPlan ==
    [][(ApplySucceeded /\ last.added # << >> /\ ApplyFailedStep)
           => (changes' = changes /\ current_layout' = current_layout)]_vars

\* C3: when apply returns an error, none of the partitions this call had
\* added is still planned.
C3_ErrorRemovesOwnPartitions ==
    ApplyFailed => \A i \in 1 .. Len(last.added) : ~IsPlanned(last.added[i])

\* Space the requests need at least: the Exact sizes and the minimums
RECURSIVE RequiredSpace(_)
RequiredSpace(requests) ==
    IF requests = << >> THEN 0
    ELSE (CASE Head(requests).kind = "Remaining" -> 0
            [] OTHER -> Head(requests).min)
         + RequiredSpace(Tail(requests))

\* The allocation of the strategy has a target region on the planner
HasTarget ==
    strategy.allocation.mode \in {"LargestFree", "FirstFit"}
        => find_free_regions(Planner) # << >>

\* Every partition of layout b is a partition of layout a
SubLayout(b, a) ==
    \A i \in 1 .. Len(b) : \E j \in 1 .. Len(a) : a[j] = b[i]

AddChanges(journal) ==
    { i \in 1 .. Len(journal) : journal[i].kind = "AddPartition" }

C5_InitializeUndoneOnError ==
    [][(strategy.allocation.mode = "InitializeWholeDisk" /\ ApplyFailedStep)
           => /\ changes = << >> => changes' = << >>
              /\ ~wipe_disk => ~wipe_disk'
              /\ SubLayout(current_layout, current_layout')]_vars

\* The request an entry of last.added was planned for
RequestOf(a) == strategy.requests[a.idx]

\* Sizes and target bounds are multiples of the alignment, ranges are ordered
WellFormed(requests, target) ==
    /\ is_aligned(target.start, Alignment) /\ is_aligned(target.end, Alignment)
    /\ \A i \in 1 .. Len(requests) :
           /\ is_aligned(requests[i].min, Alignment)
           /\ is_aligned(requests[i].max, Alignment)
           /\ requests[i].kind = "Range" => requests[i].min <= requests[i].max

\* apply planned one partition for every request, all still planned
OnePartitionPerRequest ==
    /\ Len(last.added) = Len(strategy.requests)
    /\ \A i \in 1 .. Len(strategy.requests) :
           \E j \in 1 .. Len(last.added) : last.added[j].idx = i
    /\ \A j \in 1 .. Len(last.added) : IsPlanned(last.added[j])

RespectsRequest(request, sz) ==
    CASE request.kind = "Exact" -> sz = request.min
      [] request.kind = "AtLeast" -> sz >= request.min
      [] request.kind = "Range" -> request.min <= sz /\ sz <= request.max
      [] OTHER -> TRUE

\* C6: after a successful apply of well-formed requests on an aligned target,
\* every request has its partition and the size of the partition respects it.
C6_SizesRespectRequests ==
    (ApplySucceeded /\ WellFormed(strategy.requests, last.target))
        => /\ OnePartitionPerRequest
           /\ \A j \in 1 .. Len(last.added) :
                  RespectsRequest(RequestOf(last.added[j]),
                                  size(SnappedRegion(last.added[j])))

\* C6, reached: a successful apply with an Exact, a Range and an open request
C6_Witness ==
    /\ ApplySucceeded /\ WellFormed(strategy.requests, last.target)
    /\ Len(strategy.requests) >= 2
    /\ \E i \in 1 .. Len(strategy.requests) : strategy.requests[i].kind = "Range"
    /\ \E i \in 1 .. Len(strategy.requests) :
           strategy.requests[i].kind \in {"Exact", "AtLeast"}

IsFlexible(request) == request.kind # "Exact"

\* Sum of the sizes planned by the first n entries of last.added
RECURSIVE PlannedBefore(_, _)
PlannedBefore(added, n) ==
    IF n = 0 THEN 0
    ELSE (added[n].end - added[n].start) + PlannedBefore(added, n - 1)

\* The last flexible request of the strategy was given
\* max(min, min(remaining, max)), all of remaining when it has no max
LastFlexibleTakesRemaining ==
    \A j \in 1 .. Len(last.added) :
        LET request == RequestOf(last.added[j])
            remaining == size(last.target) - PlannedBefore(last.added, j - 1)
            given == last.added[j].end - last.added[j].start
        IN (IsFlexible(request)
              /\ \A i \in last.added[j].idx + 1 .. Len(strategy.requests) :
                     ~IsFlexible(strategy.requests[i]))
           => given = IF request.kind = "Range"
                      THEN Max(request.min, Min(remaining, request.max))
                      ELSE Max(request.min, remaining)

\* The last flexible request of the strategy is Remaining or AtLeast
LastFlexibleIsOpen ==
    \E i \in 1 .. Len(strategy.requests) :
        /\ strategy.requests[i].kind \in {"Remaining", "AtLeast"}
        /\ \A k \in i + 1 .. Len(strategy.requests) : ~IsFlexible(strategy.requests[k])

\* The partitions apply created fill the target: contiguous in the order
\* they were added, from the target start to the target end
FillsTarget ==
    /\ last.added # << >>
    /\ SnappedRegion(last.added[1]).start = last.target.start
    /\ SnappedRegion(last.added[Len(last.added)]).end = last.target.end
    /\ \A j \in 1 .. Len(last.added) - 1 :
           SnappedRegion(last.added[j]).end = SnappedRegion(last.added[j + 1]).start
    /\ PlannedBefore([j \in 1 .. Len(last.added) |-> SnappedRegion(last.added[j])],
                     Len(last.added)) = size(last.target)

AlignedTarget ==
    is_aligned(last.target.start, Alignment) /\ is_aligned(last.target.end, Alignment)

OnDiskBefore(j, k) ==
    SnappedRegion(last.added[j]).start < SnappedRegion(last.added[k]).start

\* C8 as claimed: after a successful apply the partitions created lie on disk
\* in the order of their requests.
C8_DiskOrderIsRequestOrder ==
    ApplySucceeded
        => /\ OnePartitionPerRequest
           /\ \A j, k \in 1 .. Len(last.added) :
                  last.added[j].idx < last.added[k].idx => OnDiskBefore(j, k)

\* Request i is placed before request k: Exact requests first, and requests
\* of the same class in the order they were added to the strategy
PlacedBefore(i, k) ==
    LET fi == IsFlexible(strategy.requests[i])
        fk == IsFlexible(strategy.requests[k])
    IN (~fi /\ fk) \/ (fi = fk /\ i < k)

\* C8, amended: after a successful apply the partitions of the Exact requests
\* lie first on disk, in request order, followed by those of the flexible
\* requests, in request order; the disk order is the request order when no
\* Exact request follows a flexible one.
C8_DiskOrderIsExactThenFlexible ==
    ApplySucceeded
        => /\ OnePartitionPerRequest
           /\ \A j, k \in 1 .. Len(last.added) :
                  PlacedBefore(last.added[j].idx, last.added[k].idx)
                      => OnDiskBefore(j, k)

\* C8, reached: a flexible request added before an Exact one, both planned
C8_Witness ==
    /\ ApplySucceeded
    /\ \E i, k \in 1 .. Len(strategy.requests) :
           /\ i < k
           /\ IsFlexible(strategy.requests[i])
           /\ ~IsFlexible(strategy.requests[k])
    /\ OnePartitionPerRequest

\* An offset of the usable range that no partition of the layout covers
IsFreeUnit(u) ==
    /\ first_usable <= u /\ u < last_usable
    /\ \A i \in 1 .. Len(current_layout) :
           ~(current_layout[i].start <= u /\ u < current_layout[i].end)

\* The gaps of the layout inside the usable range: the maximal intervals of
\* free offsets, as <<start, end>>
UsableGaps ==
    { g \in (first_usable .. last_usable) \X (first_usable .. last_usable) :
        /\ g[1] < g[2]
        /\ \A u \in g[1] .. g[2] - 1 : IsFreeUnit(u)
        /\ ~IsFreeUnit(g[1] - 1)
        /\ ~IsFreeUnit(g[2]) }

FreeRegionSet ==
    LET regions == find_free_regions(Planner) IN
    { << regions[i].start, regions[i].end >> : i \in 1 .. Len(regions) }

\* The step is a call of apply in the given mode that selected a target
SelectsTarget(mode) ==
    /\ last'.op = "apply"
    /\ strategy.allocation.mode = mode
    /\ find_free_regions(Planner) # << >>

\* C9: the free regions are the gaps of the layout inside the usable range;
\* LargestFree targets one of them that no other exceeds in size, FirstFit
\* the one with the lowest start.
C9_FreeRegionsAndTargets ==
    [][/\ FreeRegionSet = UsableGaps
       /\ SelectsTarget("LargestFree")
              => /\ << last'.target.start, last'.target.end >> \in FreeRegionSet
                 /\ \A g \in FreeRegionSet : g[2] - g[1] <= size(last'.target)
       /\ SelectsTarget("FirstFit")
              => /\ << last'.target.start, last'.target.end >> \in FreeRegionSet
                 /\ \A g \in FreeRegionSet : last'.target.start <= g[1]]_vars

\* C10: in FirstFit mode, when some free region is large enough for the Exact
\* sizes plus the flexible minimums, apply targets a free region that is, and
\* so does not fail its check of the space the requests need.
C10_FirstFitTargetFits ==
    [][(/\ SelectsTarget("FirstFit")
        /\ \E g \in FreeRegionSet : g[2] - g[1] >= RequiredSpace(strategy.requests))
           => size(last'.target) >= RequiredSpace(strategy.requests)]_vars

\* ------------------------------------------------------------------------
\* Properties of the gap-based modes

\* The step is a call of apply in LargestFree or FirstFit mode
GapModeStep ==
    /\ last'.op = "apply"
    /\ strategy.allocation.mode \in {"LargestFree", "FirstFit"}

\* C11: in LargestFree or FirstFit mode, when the layout leaves no free
\* offset inside the usable range, apply returns NoFreeRegions and leaves the
\* planner as it was.
C11_NoFreeRegions ==
    [][(GapModeStep /\ UsableGaps = {})
           => (last'.result = "NoFreeRegions" /\ UNCHANGED planner_vars)]_vars

\* The partitions of the layout after the step that the layout before the
\* step does not hold
NewPartitions ==
    { i \in 1 .. Len(current_layout') :
        \A j \in 1 .. Len(current_layout) : current_layout[j] # current_layout'[i] }

\* C12: a successful apply in LargestFree or FirstFit mode on a planner with
\* partitions keeps every one of them unchanged, leaves as many partitions
\* as there were plus one for each request, and puts every new partition
\* inside the chosen free region, where it overlaps none of those there were.
C12_GapModeKeepsExisting ==
    [][(GapModeStep /\ last'.result = "Ok" /\ current_layout # << >>)
           => /\ SubLayout(current_layout, current_layout')
              /\ Len(current_layout') = Len(current_layout) + Len(strategy.requests)
              /\ \A i \in NewPartitions :
                     /\ last'.target.start <= current_layout'[i].start
                     /\ current_layout'[i].end <= last'.target.end
                     /\ \A j \in 1 .. Len(current_layout) :
                            ~overlaps_with(current_layout'[i], current_layout[j])]_vars

\* C12, reached: a gap-based apply planned its requests next to the
\* partitions of the device
C12_Witness ==
    /\ ApplySucceeded
    /\ strategy.allocation.mode \in {"LargestFree", "FirstFit"}
    /\ Len(last.added) = 2
    /\ Len(current_layout) = Len(original_layout) + 2
    /\ original_layout # << >>
    /\ SubLayout(original_layout, current_layout)

\* ------------------------------------------------------------------------
\* Properties of the planner

\* The partitions of a layout overlap pairwise in no offset
NonOverlapping(layout) ==
    \A i, j \in 1 .. Len(layout) : i # j => ~overlaps_with(layout[i], layout[j])

AllAligned(layout) ==
    \A i \in 1 .. Len(layout) :
        is_aligned(layout[i].start, Alignment) /\ is_aligned(layout[i].end, Alignment)

WithinUsable(layout) ==
    \A i \in 1 .. Len(layout) :
        first_usable <= layout[i].start /\ layout[i].end <= last_usable

UniqueIds(layout) ==
    \A i, j \in 1 .. Len(layout) : i # j => layout[i].id # layout[j].id

\* C13: in every state of the planner, from its construction over a device
\* snapshot on, the partitions of current_layout do not overlap, are aligned,
\* lie within [first_usable, last_usable] and have unique ids.
C13_LayoutInvariants ==
    /\ NonOverlapping(current_layout)
    /\ AllAligned(current_layout)
    /\ WithinUsable(current_layout)
    /\ UniqueIds(current_layout)

\* The planner after undo() was called until has_changes() is false
RECURSIVE UndoAll(_)
UndoAll(p) == IF p_has_changes(p) THEN UndoAll(p_undo(p)) ELSE p

\* C14: whenever has_changes() is true, calling undo() until it is false
\* brings current_layout back to original_layout.
C14_UndoAllRestoresOriginal ==
    has_changes => UndoAll(Planner).current_layout = original_layout

\* C14, reached: a journal of three changes, additions and deletions, on a
\* layout that differs from the original one
C14_Witness ==
    /\ Len(changes) = 3
    /\ \E i \in 1 .. 3 : changes[i].kind = "AddPartition"
    /\ \E i \in 1 .. 3 : changes[i].kind = "DeletePartition"
    /\ original_layout # << >>
    /\ current_layout # original_layout

\* The step is a call of plan_add_partition
AddStep == last'.op = "plan_add_partition"

\* The interval a call of plan_add_partition asked for, after snapping, with
\* the id the call returned
AskedRegion(call) ==
    Region(align_up(call.target.start, Alignment),
           align_down(call.target.end, Alignment), call.target.id)

InUsableRange(r) == first_usable <= r.start /\ r.end <= last_usable

OverlapsLayout(r, layout) ==
    \E i \in 1 .. Len(layout) : overlaps_with(r, layout[i])

UndoRestoresDeleted ==
    (/\ last'.op = "undo"
     /\ changes # << >>
     /\ changes[Len(changes)].kind = "DeletePartition")
        => LET change == changes[Len(changes)] IN
           /\ Len(current_layout') = Len(current_layout) + 1
           /\ SubLayout(current_layout, current_layout')
           /\ \E i \in 1 .. Len(current_layout') :
                  current_layout'[i] =
                      Region(change.start, change.end, change.partition_id)

\* A successful plan_add_partition returns the id next_partition_id holds and
\* moves next_partition_id past it
AddTakesNextId ==
    (AddStep /\ last'.result = "Ok")
        => /\ last'.target.id = next_partition_id
           /\ next_partition_id' = next_partition_id + 1

\* C16: next_partition_id starts at the largest original id + 1 and only
\* grows, and each plan_add_partition returns its value: an id returned once
\* is not returned again, whether or not the add is undone; undoing a delete
\* puts the partition back with the same id and the same region.
C16_IdsNeverReused ==
    /\ next_partition_id = MaxId(original_layout) + 1
    /\ [][/\ next_partition_id' >= next_partition_id
          /\ AddTakesNextId
          /\ UndoRestoresDeleted]_vars

\* C16, amended: next_partition_id only grows except in plan_initialize_disk,
\* which sets it back to 1.
C16_IdsNotReusedUntilInitialize ==
    /\ next_partition_id = MaxId(original_layout) + 1
    /\ [][/\ last'.op # "plan_initialize_disk"
                 => next_partition_id' >= next_partition_id
          /\ last'.op = "plan_initialize_disk" => next_partition_id' = 1
          /\ AddTakesNextId
          /\ UndoRestoresDeleted]_vars

\* C16, reached: after an add was undone, the next add got the id after the
\* one the undone add had
C16_Witness ==
    /\ last.op = "plan_add_partition"
    /\ last.result = "Ok"
    /\ ~wipe_disk
    /\ Len(changes) = 1
    /\ last.target.id = MaxId(original_layout) + 2

\* C17: plan_initialize_disk leaves the planner with changes, with the
\* wipe_disk latch set, with an empty layout and with 1 as the next id; and
\* the latch is never set on a planner without changes, the planner the
\* writer must not recreate the table for.
C17_InitializeIsDirty ==
    /\ ~wipe_disk
    /\ [][/\ last'.op = "plan_initialize_disk"
                 => /\ changes' # << >>
                    /\ wipe_disk'
                    /\ current_layout' = << >>
                    /\ next_partition_id' = 1
          /\ changes' = << >> => ~wipe_disk']_vars

\* ------------------------------------------------------------------------
\* Properties of the writer

\* The step is a call of simulate or write
WriterStep == last'.op \in {"simulate", "write"}

\* The ids that are live after a journal was walked from a set of live ids,
\* in a record with whether an AddPartition met a live id on the way
RECURSIVE WalkLiveIds(_, _)
WalkLiveIds(journal, live) ==
    IF journal = << >> THEN [duplicate |-> FALSE, live |-> live]
    ELSE LET change == Head(journal) IN
         IF change.kind = "AddPartition"
         THEN IF change.partition_id \in live
              THEN [duplicate |-> TRUE, live |-> live]
              ELSE WalkLiveIds(Tail(journal), live \cup {change.partition_id})
         ELSE WalkLiveIds(Tail(journal), live \ {change.partition_id})

\* The ids of the partitions that are on the device
DeviceIds == { e.id : e \in device.table }

\* C18: the writer's validation fails with DuplicatePartitionId exactly when,
\* walking the journal in order from the ids of the partitions on the disk,
\* an AddPartition uses an id that is live at that point.
C18_ValidationTracksLiveIds ==
    [][WriterStep =>
          (last'.result = "DuplicatePartitionId"
               <=> WalkLiveIds(changes, DeviceIds).duplicate)]_vars

\* The device is as it was before the step and nothing was done to it
DeviceUntouched == device' = device /\ last'.effects = << >>

\* C19: when the size of the device differs from the size the plan was made
\* for, simulate() and write() fail with DeviceSizeChanged and leave the
\* device alone.
C19_DeviceSizeChecked ==
    [][(WriterStep /\ device.size # DiskSize)
           => (last'.result = "DeviceSizeChanged" /\ DeviceUntouched)]_vars

\* C20: simulate() leaves the device and the kernel's view of its partitions
\* as they were and performs no operation on them, whatever the planner
\* holds; a second simulate() on the same device and planner returns what
\* the first returned.
C20_SimulateIsReadOnly ==
    [][last'.op = "simulate"
           => /\ DeviceUntouched
              /\ last.op = "simulate" => last'.result = last.result]_vars

\* C20, reached: a simulation succeeded for a planner that wipes a disk
\* holding partitions and adds one
C20_Witness ==
    /\ last.op = "simulate"
    /\ last.result = "Ok"
    /\ wipe_disk
    /\ \E i \in 1 .. Len(changes) : changes[i].kind = "AddPartition"
    /\ device.table # {}
    /\ device.kernel # {}

\* The GPT entries after the changes of a journal were applied in order
RECURSIVE ReplayJournal(_, _)
ReplayJournal(journal, table) ==
    IF journal = << >> THEN table
    ELSE LET change == Head(journal) IN
         ReplayJournal(Tail(journal),
             IF change.kind = "DeletePartition"
             THEN { e \in table : e.id # change.partition_id }
             ELSE table \cup
                  { GptEntry(change.partition_id,
                             Bytes(change.start) \div SECTOR_SIZE,
                             (Bytes(change.end) - Bytes(change.start)) \div SECTOR_SIZE) })

\* The zeroing of the head of each partition a journal adds, in journal order
RECURSIVE HeadZeroings(_)
HeadZeroings(journal) ==
    IF journal = << >> THEN << >>
    ELSE (IF Head(journal).kind = "AddPartition"
          THEN << Effect("zero_region", Bytes(Head(journal).start),
                         IF Bytes(Head(journal).end) - Bytes(Head(journal).start) < HeaderBytes
                         THEN Bytes(Head(journal).end) - Bytes(Head(journal).start)
                         ELSE HeaderBytes) >>
          ELSE << >>)
         \o HeadZeroings(Tail(journal))

\* The steps of a write, in order, up to the re-scan by the kernel
StepsOfWrite ==
    << Effect("remove_kernel_partitions", 0, 0) >>
    \o (IF wipe_disk
        THEN << Effect("zero_region", 0, HeaderBytes),
                Effect("overwrite_lba0", 0,
                       ProtectiveMbrSize(Bytes(device.size) \div SECTOR_SIZE)),
                Effect("write_inplace", 0, 0) >>
        ELSE << >>)
    \o << Effect("gpt_write", 0, 0), Effect("sync_all", 0, 0) >>
    \o HeadZeroings(changes)
    \o << Effect("create_kernel_partitions", 0, 0) >>

ClaimedOrder == << "Ext4", "Btrfs", "F2FS", "Xfs", "Luks2", "Fat" >>

DetectionOf(kind) ==
    CHOOSE T \in { Ext4Detection, BtrfsDetection, F2FSDetection,
                   XfsDetection, Luks2Detection, FatDetection } :
        T.kind = kind

\* The buffer holds a valid magic of the format at the format's magic offset
MagicValid(buf, kind) ==
    LET T == DetectionOf(kind) IN
    /\ T.MAGIC_OFFSET + T.MAGIC_SIZE <= buf.len
    /\ ReadMagic(buf.at, T) \in T.magics

\* The formats, by position in the claimed order, whose magic is valid
ValidMagics(buf) ==
    { i \in DOMAIN ClaimedOrder : MagicValid(buf, ClaimedOrder[i]) }

FirstValid(buf) ==
    LET valid == ValidMagics(buf) IN
    ClaimedOrder[CHOOSE i \in valid : \A j \in valid : i <= j]

\* C22: from_bytes on a buffer of at least 128 KiB returns the first kind,
\* in the order ext4, btrfs, f2fs, xfs, luks2, fat, whose magic is valid at
\* its magic offset; of several valid magics the earliest in the order wins.
C22_FirstValidMagicWins ==
    (/\ detected.op = "from_bytes"
     /\ bytes.len >= 128 * 1024
     /\ ValidMagics(bytes) # {})
    => detected = Detected("from_bytes", "Ok", FirstValid(bytes))

\* from_bytes returned btrfs for a buffer of 128 KiB that also holds the
\* magics of later formats
C22_Witness ==
    /\ detected = Detected("from_bytes", "Ok", "Btrfs")
    /\ bytes.len >= 128 * 1024
    /\ Cardinality(ValidMagics(bytes)) >= 3

\* The two buffers hold the bytes [lo, hi) and agree on them
EqualOn(b1, b2, lo, hi) ==
    /\ hi <= b1.len
    /\ hi <= b2.len
    /\ \A o \in DOMAIN MagicFields :
         (o < hi /\ o + MagicFields[o] > lo) => b1.at[o] = b2.at[o]

\* The two buffers agree on the superblock region of the format
EqualOnRegion(b1, b2, kind) ==
    LET T == DetectionOf(kind) IN EqualOn(b1, b2, T.OFFSET, T.OFFSET + T.SIZE)

\* The two buffers agree on the magic bytes of the format
EqualOnMagic(b1, b2, kind) ==
    LET T == DetectionOf(kind) IN
    EqualOn(b1, b2, T.MAGIC_OFFSET, T.MAGIC_OFFSET + T.MAGIC_SIZE)

PositionOf(kind) == CHOOSE i \in DOMAIN ClaimedOrder : ClaimedOrder[i] = kind

\* No format before the kind in the order has a valid magic in the buffer
NoEarlierMagic(buf, kind) ==
    \A i \in ValidMagics(buf) : i >= PositionOf(kind)

Identified == detected.op = "from_bytes" /\ detected.result = "Ok"

\* C23 as stated: a buffer identified as kind k is still identified as k
\* after its bytes outside k's superblock region [OFFSET, OFFSET + SIZE) are
\* perturbed arbitrarily.
C23_RegionDeterminesKind ==
    Identified =>
        \A b2 \in Buffers :
            (b2.len = bytes.len /\ EqualOnRegion(bytes, b2, detected.kind))
            => from_bytes(b2) = detected

\* C23: a buffer identified as kind k is still identified as k after its
\* bytes are perturbed, and bytes are appended, provided that the bytes of
\* k's superblock region and of k's magic are kept and that no format before
\* k in the order gets a valid magic.
C23_RegionMagicAndOrderDetermineKind ==
    Identified =>
        \A b2 \in Buffers :
            (/\ b2.len >= bytes.len
             /\ EqualOnRegion(bytes, b2, detected.kind)
             /\ EqualOnMagic(bytes, b2, detected.kind)
             /\ NoEarlierMagic(b2, detected.kind))
            => from_bytes(b2) = detected

\* A buffer was identified as btrfs, and a longer buffer that differs from
\* it outside the btrfs region, keeps the btrfs magic and has no ext4 magic
\* is btrfs too
C23_Witness ==
    /\ Identified
    /\ detected.kind = "Btrfs"
    /\ \E b2 \in Buffers :
         /\ b2.len > bytes.len
         /\ b2.at # bytes.at
         /\ EqualOnRegion(bytes, b2, "Btrfs")
         /\ EqualOnMagic(bytes, b2, "Btrfs")
         /\ NoEarlierMagic(b2, "Btrfs")
         /\ from_bytes(b2) = detected

\* C24: from_bytes returns UnknownSuperblock for every buffer, of any
\* length, in which no format has a valid magic at its magic offset.
C24_NoMagicIsUnknown ==
    (detected.op = "from_bytes" /\ ValidMagics(bytes) = {})
    => detected.result = "UnknownSuperblock"

\* The first format, in the order, whose magic is valid is reached: the
\* buffer holds the magic bytes of every format before it
ReachesFirstValid(buf) ==
    /\ ValidMagics(buf) # {}
    /\ \A i \in 1 .. PositionOf(FirstValid(buf)) :
         LET T == DetectionOf(ClaimedOrder[i]) IN
         T.MAGIC_OFFSET + T.MAGIC_SIZE <= buf.len

\* The buffer ends before the end of the format's superblock structure
BodyCutShort(buf, kind) ==
    LET T == DetectionOf(kind) IN buf.len < T.OFFSET + T.SIZE

\* C25: when the magic of the format that is reached is valid and the
\* buffer ends before OFFSET + SIZE, identification returns
\* UnknownSuperblock, not another kind and not an I/O error.
C25_CutBodyIsUnknown ==
    (/\ detected.op = "from_bytes"
     /\ ReachesFirstValid(bytes)
     /\ BodyCutShort(bytes, FirstValid(bytes)))
    => detected.result = "UnknownSuperblock"

\* ------------------------------------------------------------------------
\* Properties of the sizing functions

Aligned == sizing.op \in {"align_up", "align_down"}

IsMultiple(n, a) == n % a = 0

Distance(m, n) == IF m >= n THEN m - n ELSE n - m

\* No multiple of the alignment is nearer to the value than the result: the
\* nearest are the multiple at or below the value and the next one
IsNearestMultiple(n, v, a) ==
    /\ IsMultiple(n, a)
    /\ Distance(n, v) <= v % a
    /\ Distance(n, v) <= a - (v % a)

\* The result the cases of the claim give, with r = v mod a
ClaimedAlignUp(v, a) ==
    LET r == v % a IN
    IF r = 0 THEN v ELSE IF r <= a \div 2 THEN v - r ELSE v + (a - r)

ClaimedAlignDown(v, a) ==
    LET r == v % a IN
    IF r = 0 THEN v ELSE IF r >= a \div 2 THEN v + (a - r) ELSE v - r

\* C26: for every v and every a > 0, even or odd, align_up and align_down
\* return what the cases on r = v mod a give; both results are multiples of a
\* and each is a multiple of a nearest to v.
C26_AlignsToNearestMultiple ==
    Aligned =>
        /\ ~sizing.result.panic
        /\ sizing.op = "align_up"
           => sizing.result.value = ClaimedAlignUp(sizing.v, sizing.a)
        /\ sizing.op = "align_down"
           => sizing.result.value = ClaimedAlignDown(sizing.v, sizing.a)
        /\ IsNearestMultiple(sizing.result.value, sizing.v, sizing.a)

\* C27: for every v and every a > 0, aligning the result of align_up again,
\* up or down, returns it unchanged, and is_aligned holds of every result of
\* align_up and of align_down.
C27_AlignedStaysAligned ==
    Aligned =>
        /\ ~sizing.result.panic
        /\ is_aligned(sizing.result.value, sizing.a)
        /\ sizing.op = "align_up"
           => /\ align_up(sizing.result.value, sizing.a) = sizing.result.value
              /\ align_down(sizing.result.value, sizing.a) = sizing.result.value

\* ------------------------------------------------------------------------
\* Properties of Strategy::apply, continued

\* The flexible requests of the strategy from the idx-th request on: those
\* not yet placed when the idx-th is, itself included
FlexibleLeft(idx) ==
    Cardinality({ i \in idx .. Len(strategy.requests) :
                    IsFlexible(strategy.requests[i]) })

\* Every flexible request placed by the last apply that is not the last
\* flexible one was given its minimum plus remaining / (k + more), at most
\* its max when it has one; k counts the flexible requests not yet placed,
\* the current one included
FairShareOver(more) ==
    \A j \in 1 .. Len(last.added) :
        LET request == RequestOf(last.added[j])
            k == FlexibleLeft(last.added[j].idx)
            remaining == size(last.target) - PlannedBefore(last.added, j - 1)
            given == last.added[j].end - last.added[j].start
            fair == request.min + remaining \div (k + more)
        IN (IsFlexible(request) /\ k > 1)
           => given = IF request.kind = "Range" THEN Min(fair, request.max)
                      ELSE fair

\* C28 as stated: a flexible request that is not the last flexible one
\* receives min + floor(remaining / (k + 1)), clamped by max when set.
C28_FairShareOverKPlusOne == last.op = "apply" => FairShareOver(1)

\* C28: a flexible request that is not the last flexible one receives
\* min + floor(remaining / k), clamped by max when set, k being the number of
\* flexible requests not yet placed including the current one.
C28_FairShareOverK == last.op = "apply" => FairShareOver(0)

\* apply placed a flexible request that was not the last one, without a max,
\* where remaining / k and remaining / (k + 1) differ
C28_Witness ==
    /\ ApplySucceeded
    /\ \E j \in 1 .. Len(last.added) :
         LET request == RequestOf(last.added[j])
             k == FlexibleLeft(last.added[j].idx)
             remaining == size(last.target) - PlannedBefore(last.added, j - 1)
         IN /\ request.kind \in {"AtLeast", "Remaining"}
            /\ k > 1
            /\ remaining \div k # remaining \div (k + 1)
            /\ last.added[j].end - last.added[j].start
                 = request.min + remaining \div k

\* C29: on a planner without partitions and without changes, when the
\* target region holds the Exact sizes plus the flexible minimums
\* (F + M <= R), every Range has min <= max, and all sizes and both target
\* bounds are multiples of the alignment, apply succeeds and plans one
\* partition per request.
C29_SatisfiableRequestsSucceed ==
    [][(/\ last'.op = "apply"
        /\ HasTarget
        /\ current_layout = << >>
        /\ changes = << >>
        /\ WellFormed(strategy.requests, last'.target)
        /\ RequiredSpace(strategy.requests) <= size(last'.target))
           => (last'.result = "Ok" /\ OnePartitionPerRequest')]_vars

\* ------------------------------------------------------------------------
\* Properties of the writer, continued

\* C30: when validation of the planner's changes fails, write() returns the
\* validation error; the kernel was not asked to forget partitions and no
\* byte of the device was written or zeroed.
C30_FailedValidationWritesNothing ==
    [][(last'.op = "write" /\ ValidateIds(changes, {}) # "Ok")
           => /\ last'.result = ValidateIds(changes, {})
              /\ DeviceUntouched]_vars

\* C30, reached: write() returned DuplicatePartitionId for a device that
\* holds partitions the kernel knows of, and the device still holds them
C30_Witness ==
    /\ last.op = "write"
    /\ last.result = "DuplicatePartitionId"
    /\ last.effects = << >>
    /\ device.table # {}
    /\ device.kernel # {}

\* ------------------------------------------------------------------------
\* Properties of the writer: zeroing and sector arithmetic

\* The zeroings of partition heads among the effects of a write: those made
\* after the GPT was synced
RECURSIVE AfterSync(_)
AfterSync(effects) ==
    IF effects = << >> THEN << >>
    ELSE IF Head(effects).op = "sync_all" THEN Tail(effects)
    ELSE AfterSync(Tail(effects))

HeadZeroed(effects) ==
    SelectSeq(AfterSync(effects), LAMBDA e : e.op = "zero_region")

\* The AddPartition changes of a journal, in journal order
AddedBy(journal) == SelectSeq(journal, LAMBDA c : c.kind = "AddPartition")

\* The GPT entries of the device that the journal leaves alone: the table
\* is not recreated and no change deletes their id
Staying(table, journal, wiped) ==
    IF wiped THEN {}
    ELSE { e \in table :
             \A i \in 1 .. Len(journal) :
                 journal[i].kind = "DeletePartition" => journal[i].partition_id # e.id }

\* The bytes [offset, offset + length) meet the sectors of the GPT entry
MeetsEntry(offset, length, e) ==
    /\ length > 0
    /\ offset < (e.first_lba + e.length_lba) * SECTOR_SIZE
    /\ e.first_lba * SECTOR_SIZE < offset + length

\* C31: a write() that returns Ok zeroed, for each AddPartition change of the
\* journal, exactly min(end - start, 2 MiB) bytes from the partition's
\* start, all within [start, end), and none of them in a partition that was
\* on the device before and stays.
C31_ZeroesHeadsOfAddedOnly ==
    [][(last'.op = "write" /\ last'.result = "Ok") =>
          LET zeroed == HeadZeroed(last'.effects)
              added == AddedBy(changes)
          IN /\ Len(zeroed) = Len(added)
             /\ \A i \in 1 .. Len(added) :
                    LET start == Bytes(added[i].start)
                        end == Bytes(added[i].end)
                    IN /\ zeroed[i].offset = start
                       /\ zeroed[i].length = Min(end - start, 2 * 1024 * 1024)
                       /\ zeroed[i].offset + zeroed[i].length <= end
                       /\ \A e \in Staying(device.table, changes, wipe_disk) :
                              ~MeetsEntry(zeroed[i].offset, zeroed[i].length, e)]_vars

\* C31, reached: a write succeeded that kept a partition of the device and
\* added a partition of more than 2 MiB
C31_Witness ==
    /\ last.op = "write"
    /\ last.result = "Ok"
    /\ ~wipe_disk
    /\ \E e \in device.table :
           \A i \in 1 .. Len(changes) : changes[i].partition_id # e.id
    /\ \E i \in 1 .. Len(changes) :
           /\ changes[i].kind = "AddPartition"
           /\ Bytes(changes[i].end) - Bytes(changes[i].start) > HeaderBytes

\* C32: for every device size s in bytes the protective MBR written on wipe
\* has the size min(floor(s / 512) - 1, largest u32) in sectors, and 0 for a
\* size below 512 bytes; it never wraps.
C32_ProtectiveMbrClamped ==
    sizing.op = "with_lb_size" =>
        LET s == sizing.v
            sectors == s \div 512
        IN /\ ~sizing.result.panic
           /\ s < 512 => sizing.result.value = 0
           /\ s >= 512 => sizing.result.value = Min(sectors - 1, U32Max)
           /\ sectors - 1 > U32Max => sizing.result.value = U32Max

\* C32, reached: the protective MBR of a device whose sectors, less one, do
\* not fit a u32
C32_Witness ==
    /\ sizing.op = "with_lb_size"
    /\ sizing.v \div 512 - 1 > U32Max
    /\ sizing.result.value = U32Max

\* The change is an AddPartition that no later change of the journal deletes
AddedAndKept(journal, i) ==
    /\ journal[i].kind = "AddPartition"
    /\ \A j \in (i + 1) .. Len(journal) :
           journal[j].kind = "DeletePartition"
               => journal[j].partition_id # journal[i].partition_id

\* C33: every AddPartition of a journal of the planner has a start and an
\* end that are whole sectors, and a write() that returns Ok holds for it a
\* GPT entry with first LBA = start / 512 and length = (end - start) / 512,
\* which covers exactly the bytes [start, end).
C33_GptEntryCoversPlannedBytes ==
    [][/\ \A i \in 1 .. Len(changes') :
              changes'[i].kind = "AddPartition"
                  => /\ is_aligned(changes'[i].start, Alignment)
                     /\ is_aligned(changes'[i].end, Alignment)
                     /\ Bytes(changes'[i].start) % 512 = 0
                     /\ Bytes(changes'[i].end) % 512 = 0
       /\ (last'.op = "write" /\ last'.result = "Ok")
              => \A i \in 1 .. Len(changes) :
                     AddedAndKept(changes, i)
                         => \E e \in device'.table :
                                LET start == Bytes(changes[i].start)
                                    end == Bytes(changes[i].end)
                                IN /\ e.id = changes[i].partition_id
                                   /\ e.first_lba = start \div 512
                                   /\ e.length_lba = (end - start) \div 512
                                   /\ e.first_lba * 512 = start
                                   /\ e.length_lba * 512 = end - start]_vars

\* C33, reached: a write succeeded for a journal whose AddPartition was asked
\* for at offsets that the planner snapped
C33_Witness ==
    /\ last.op = "write"
    /\ last.result = "Ok"
    /\ \E i \in 1 .. Len(changes) :
           /\ AddedAndKept(changes, i)
           /\ changes[i].start = 8
           /\ changes[i].end = 12
           /\ \E e \in device.table :
                  /\ e.id = changes[i].partition_id
                  /\ e.first_lba * 512 = Bytes(8)

\* ------------------------------------------------------------------------
\* Properties of the LUKS2 configuration

\* C34: for every LUKS2 header that identification accepted, read_config
\* reads exactly hdr_size - 4096 bytes from byte 4096 when the reader holds
\* them; the subtraction neither wraps nor aborts, also for a hdr_size
\* smaller than 4096.
C34_ReadConfigLengthIsSound ==
    detected.op = "read_config" =>
        /\ detected.result # "Panic"
        /\ ~detected.config.wrapped
        /\ detected.result \in {"Ok", "InvalidJson"}
               => /\ detected.config.offset = 4096
                  /\ detected.config.read = detected.config.hdr_size - 4096

\* ------------------------------------------------------------------------
\* The rollback loop of Strategy::apply, one undo at a time
\* (partitioning/src/strategy.rs: while planner.has_changes() { planner.undo(); })

\* The loop was entered and has not left yet
InRollback == last.op = "rollback" /\ last.result = "Continue"

\* apply takes an error branch and reaches the loop
RollbackEnter ==
    /\ ~Consumed
    /\ ~InRollback
    /\ last' = [Call("rollback", "Continue") EXCEPT
                    !.target = Region(0, Len(changes), 0)]
    /\ UNCHANGED << planner_vars, strategy, device, pure_vars >>

\* The loop test is true: one call of undo
RollbackUndo ==
    /\ InRollback
    /\ has_changes
    /\ SetPlanner(p_undo(Planner))
    /\ last' = [last EXCEPT !.effects = Append(@, Effect("undo", 0, 0))]
    /\ UNCHANGED << strategy, device, pure_vars >>

\* The loop test is false: apply returns its error
RollbackExit ==
    /\ InRollback
    /\ ~has_changes
    /\ last' = [last EXCEPT !.result = "Done"]
    /\ UNCHANGED << planner_vars, strategy, device, pure_vars >>

\* The planner driven by its own operations, and the loop run on any state
\* they reach; no operation interleaves with the loop
NextRollback ==
    \/ ~InRollback /\ PlanAddPartition
    \/ ~InRollback /\ PlanDeletePartition
    \/ ~InRollback /\ Undo
    \/ ~InRollback /\ PlanInitializeDisk
    \/ RollbackEnter
    \/ RollbackUndo
    \/ RollbackExit

\* The loop is sequential code: once entered it keeps taking its next step
SpecRollback ==
    /\ Init
    /\ [][NextRollback]_vars
    /\ WF_vars(RollbackUndo)
    /\ WF_vars(RollbackExit)

\* The loop has returned with an empty journal
RolledBack == last.op = "rollback" /\ last.result = "Done" /\ ~has_changes

\* One turn of the loop
RollbackTurn == InRollback /\ has_changes /\ last'.effects # last.effects

\* C35: the rollback loop of apply terminates from every planner state the
\* operations reach, plan_initialize_disk included: every undo made while
\* has_changes() is true takes exactly one entry off the journal, and the
\* loop, once entered, leaves with has_changes() false.
C35_RollbackTerminates ==
    /\ [][RollbackTurn => Len(changes') = Len(changes) - 1]_vars
    /\ InRollback ~> RolledBack

\* The loop runs on a journal written by plan_initialize_disk: one undo is
\* done and entries are left
C35_Witness ==
    /\ InRollback
    /\ wipe_disk
    /\ has_changes
    /\ Len(last.effects) >= 1
    /\ changes[Len(changes)].kind = "DeletePartition"

\* C36: whatever sequence of planner operations produced the journal
\* (plan_initialize_disk restarting the ids from 1 included), the writer's
\* validation accepts it: simulate and write never return
\* DuplicatePartitionId.
C36_PlannerJournalPassesValidation ==
    last.op \in {"simulate", "write"} => last.result # "DuplicatePartitionId"

\* C37: for every layout the planner holds, partitions that start or end
\* below first_usable included, each region find_free_regions returns has
\* start < end, lies within [first_usable, last_usable] and overlaps no
\* partition of current_layout, and the regions are pairwise disjoint and in
\* ascending order of start.
C37_FreeRegionsWellFormed ==
    LET regions == find_free_regions(Planner) IN
    /\ \A i \in 1 .. Len(regions) :
           /\ regions[i].start < regions[i].end
           /\ first_usable <= regions[i].start
           /\ regions[i].end <= last_usable
           /\ \A j \in 1 .. Len(current_layout) :
                  ~overlaps_with(regions[i], current_layout[j])
    /\ \A i \in 1 .. Len(regions) : \A j \in i + 1 .. Len(regions) :
           /\ regions[i].start < regions[j].start
           /\ ~overlaps_with(regions[i], regions[j])

\* C38: the requests apply places back to back do not collide after the
\* planner snaps them, the snapped end of one partition being no greater
\* than the snapped start of the next: an apply that initializes the whole
\* disk, where every partition of the layout is one of its own, never
\* returns PartitionOverlap.
C38_BackToBackNeverOverlap ==
    [][(last'.op = "apply" /\ strategy.allocation.mode = "InitializeWholeDisk")
           => last'.result # "PartitionOverlap"]_vars

====
